---- MODULE Spec2Model ----
(***************************************************************************)
(* The two Slack notifier Lambda handlers of terraform/lambda:            *)
(*   pipeline_slack_notifier.handler  (CI/CD pipeline events)             *)
(*   slack_notifier.handler           (CloudWatch alarm state changes)    *)
(* One behaviour is one invocation of one handler.  The handler's body is  *)
(* cut into steps at the places where it can raise or touch the network,   *)
(* so that the order of the configuration check, the decoding of the      *)
(* event and the webhook POST is visible in the states.                    *)
(*                                                                         *)
(* Python values are records [t, s]: t is the type ("str", "null", "num",  *)
(* "list") and s the characters of a str (for the other types, the text    *)
(* str() gives).  Emoji are written as their code points.                  *)
(***************************************************************************)
EXTENDS Integers, Sequences, FiniteSets, TLC

VARIABLES
    handlerKind,    \* which of the two handlers this invocation runs
    environ,        \* os.environ: the process environment
    event,          \* the handler's event argument
    now,            \* datetime.utcnow() of this invocation
    pc,             \* position of the invocation in the handler
    webhook_url, project_name, environment,   \* configuration locals
    sns_message,    \* the decoded SNS message
    locals,         \* the extracted fields
    color, emoji,   \* the classification
    slack_message,  \* the message built for Slack
    posts,          \* the requests handed to http.request, in order
    postOutcome,    \* how the http.request call ended
    response,       \* the response http.request returned
    result,         \* the value the handler returned
    fault,          \* the exception that left the handler
    eventRead,      \* whether any step has read the event
    log             \* what the handler printed

vars == <<handlerKind, environ, event, now, pc, webhook_url, project_name,
          environment, sns_message, locals, color, emoji, slack_message,
          posts, postOutcome, response, result, fault, eventRead, log>>

inputs == <<handlerKind, environ, event, now>>

----------------------------------------------------------------------------
(* Bounds of the model *)

\* how many characters the long commit message has beyond the display limit
Pad == 1
\* the clock readings an invocation may see are 0..MaxNow
MaxNow == 1

(* Program constants *)

\* commit_sha[:8]
ShaDisplayLen == 8
\* commit_message[:100] and len(commit_message) > 100
CommitMessageLimit == 100
\* response.status == 200
HttpOk == 200
\* statusCode of the configuration error
StatusNotConfigured == 400
\* statusCode of the except clause
StatusProcessingError == 500

----------------------------------------------------------------------------
(* Python values and the str operations the handlers use *)

PyStr(s) == [t |-> "str", s |-> s]
PyNone == [t |-> "null", s |-> "None"]
PyNum == [t |-> "num", s |-> "7"]
PyList == [t |-> "list", s |-> "[]"]
\* marks a key the JSON object does not carry
Absent == [t |-> "absent", s |-> ""]

\* bool(v): None, "", 0 and [] are false
Truthy(v) ==
    CASE v.t = "str" -> v.s # ""
      [] v.t = "null" -> FALSE
      [] v.t = "num" -> v.s # "0"
      [] v.t = "list" -> v.s # "[]"

\* hash(v) succeeds: dict.get(v) raises TypeError on a list
Hashable(v) == v.t # "list"

\* f"{v}"
Format(v) == v.s

UpperChars == "ABCDEFGHIJKLMNOPQRSTUVWXYZ"
LowerChars == "abcdefghijklmnopqrstuvwxyz"

CharAt(s, i) == SubSeq(s, i, i)

ToLower(c) ==
    IF \E i \in 1..Len(UpperChars) : CharAt(UpperChars, i) = c
    THEN CharAt(LowerChars, CHOOSE i \in 1..Len(UpperChars) : CharAt(UpperChars, i) = c)
    ELSE c

ToUpper(c) ==
    IF \E i \in 1..Len(LowerChars) : CharAt(LowerChars, i) = c
    THEN CharAt(UpperChars, CHOOSE i \in 1..Len(LowerChars) : CharAt(LowerChars, i) = c)
    ELSE c

RECURSIVE LowerFrom(_, _)
LowerFrom(s, i) ==
    IF i > Len(s) THEN "" ELSE ToLower(CharAt(s, i)) \o LowerFrom(s, i + 1)

\* str.lower()
StrLower(s) == LowerFrom(s, 1)

RECURSIVE UpperFrom(_, _)
UpperFrom(s, i) ==
    IF i > Len(s) THEN "" ELSE ToUpper(CharAt(s, i)) \o UpperFrom(s, i + 1)

\* str.upper()
StrUpper(s) == UpperFrom(s, 1)

\* s[:n]
Slice(s, n) == SubSeq(s, 1, IF Len(s) < n THEN Len(s) ELSE n)

RECURSIVE Repeat(_, _)
\* a str of n characters c (the inputs are built with it)
Repeat(c, n) == IF n = 0 THEN "" ELSE c \o Repeat(c, n - 1)

\* dict.get(key, default)
DictGet(d, key, default) == IF key \in DOMAIN d THEN d[key] ELSE default

\* os.environ.get(name) / os.environ.get(name, default)
EnvGet(name, default) == IF name \in DOMAIN environ THEN PyStr(environ[name]) ELSE default

\* json.dumps of a str, and of the message
JsonDumpsStr(s) == "\"" \o s \o "\""
JsonDumps(msg) == [json |-> msg]

\* f"{response.data}": the repr of a bytes object
BytesRepr(data) == "b'" \o data \o "'"

----------------------------------------------------------------------------
(* Exceptions *)

Exc(cls, desc) == [cls |-> cls, desc |-> desc]
NoFault == Exc("", "")

\* the classes derived from Exception among those the handlers can meet
ExceptionClasses ==
    {"KeyError", "IndexError", "TypeError", "AttributeError", "JSONDecodeError",
     "MaxRetryError"}

\* an except clause that names only the lookup errors
CaughtOnlyLookupErrors(e) == e.cls \in {"KeyError", "IndexError"}

\* `except Exception as e`
CaughtByExcept(e) == e.cls \in ExceptionClasses

Ok(v) == [ok |-> TRUE, val |-> v, exc |-> NoFault]
Raise(cls, desc) == [ok |-> FALSE, val |-> <<>>, exc |-> Exc(cls, desc)]

----------------------------------------------------------------------------
(* Decoding: json.loads(event['Records'][0]['Sns']['Message']) *)

TypeName(v) ==
    CASE v.t = "str" -> "str"
      [] v.t = "null" -> "NoneType"
      [] v.t = "num" -> "int"
      [] v.t = "list" -> "list"
      [] v.t = "obj" -> "dict"

\* A Message is None or a text; a text is well-formed JSON denoting doc, or not.
MessageText(doc) == [t |-> "str", wf |-> TRUE, doc |-> doc]
MalformedText == [t |-> "str", wf |-> FALSE, doc |-> [t |-> "null", m |-> <<>>]]
MessageNone == [t |-> "null", wf |-> FALSE, doc |-> [t |-> "null", m |-> <<>>]]

\* the documents a well-formed text denotes: an object, or something else
JsonObject(m) == [t |-> "obj", m |-> m]
JsonArray == [t |-> "list", m |-> <<>>]

\* a parse that turns an unreadable text into an empty object
JsonLoadsLenient(text) ==
    IF text.t = "str" /\ text.wf THEN Ok(text.doc)
    ELSE Ok([t |-> "obj", m |-> <<>>])

\* json.loads
JsonLoads(text) ==
    IF text.t # "str"
    THEN Raise("TypeError",
               "the JSON object must be str, bytes or bytearray, not " \o TypeName(text))
    ELSE IF ~text.wf
    THEN Raise("JSONDecodeError", "Expecting value: line 1 column 1 (char 0)")
    ELSE Ok(text.doc)

DecodeEnvelope(ev) ==
    IF "Records" \notin DOMAIN ev THEN Raise("KeyError", "'Records'")
    ELSE IF Len(ev.Records) = 0 THEN Raise("IndexError", "list index out of range")
    ELSE IF "Sns" \notin DOMAIN ev.Records[1] THEN Raise("KeyError", "'Sns'")
    ELSE IF "Message" \notin DOMAIN ev.Records[1].Sns THEN Raise("KeyError", "'Message'")
    ELSE JsonLoads(ev.Records[1].Sns.Message)

----------------------------------------------------------------------------
(* Field extraction *)

\* datetime.utcnow().isoformat()
IsoFormat(n) == "1970-01-01T00:00:0" \o ToString(n)

PipelineDefaults ==
    [event_type |-> PyStr("unknown"), status |-> PyStr("unknown"),
     branch |-> PyStr("unknown"), commit_sha |-> PyStr("unknown"),
     commit_message |-> PyStr("No commit message"), author |-> PyStr("Unknown"),
     workflow_url |-> PyStr(""), deployment_version |-> PyStr("")]

AlarmDefaults(n) ==
    [AlarmName |-> PyStr("Unknown Alarm"), AlarmDescription |-> PyStr("No description"),
     NewStateValue |-> PyStr("UNKNOWN"), OldStateValue |-> PyStr("UNKNOWN"),
     NewStateReason |-> PyStr("No reason provided"),
     StateChangeTime |-> PyStr(IsoFormat(n))]

\* sns_message.get(key, default)
FieldGet(msg, key, default) == DictGet(msg, key, default)

ExtractPipeline(msg) ==
    [k \in DOMAIN PipelineDefaults |-> FieldGet(msg, k, PipelineDefaults[k])]

ExtractAlarm(msg, n) ==
    [k \in DOMAIN AlarmDefaults(n) |-> FieldGet(msg, k, AlarmDefaults(n)[k])]

\* the first sns_message.get(...) raises when the document is no object
Extract(kind, doc, n) ==
    IF doc.t # "obj"
    THEN Raise("AttributeError", "'" \o TypeName(doc) \o "' object has no attribute 'get'")
    ELSE Ok(IF kind = "pipeline" THEN ExtractPipeline(doc.m) ELSE ExtractAlarm(doc.m, n))

----------------------------------------------------------------------------
(* Classification *)

Green == "#00FF00"
Red == "#FF0000"
Orange == "#FFA500"
Gray == "#808080"

CheckMark == "U+2705"
CrossMark == "U+274C"
Arrows == "U+1F504"
Siren == "U+1F6A8"
Warning == "U+26A0 U+FE0F"
QuestionMark == "U+2753"

Look(c, e) == [color |-> c, emoji |-> e]

\* the if/elif chain over status.lower()
PipelineBucket(lowered) ==
    IF lowered \in {"success", "completed"} THEN Look(Green, CheckMark)
    ELSE IF lowered \in {"failure", "failed", "error"} THEN Look(Red, CrossMark)
    ELSE IF lowered \in {"started", "running", "in_progress"} THEN Look(Orange, Arrows)
    ELSE Look(Gray, QuestionMark)

ClassifyPipeline(status) ==
    IF status.t # "str"
    THEN Raise("AttributeError",
               "'" \o TypeName(status) \o "' object has no attribute 'lower'")
    ELSE Ok(PipelineBucket(StrLower(status.s)))

color_map == [ALARM |-> Red, OK |-> Green, INSUFFICIENT_DATA |-> Orange]
emoji_map == [ALARM |-> Siren, OK |-> CheckMark, INSUFFICIENT_DATA |-> Warning]

\* a lookup that upper-cases the key first
MapGetIgnoringCase(map, key, default) ==
    IF key.t = "str" /\ StrUpper(key.s) \in DOMAIN map THEN map[StrUpper(key.s)]
    ELSE default

\* map.get(key, default) for a dict with str keys
MapGet(map, key, default) ==
    IF key.t = "str" /\ key.s \in DOMAIN map THEN map[key.s] ELSE default

ClassifyAlarm(new_state) ==
    IF ~Hashable(new_state)
    THEN Raise("TypeError", "unhashable type: '" \o TypeName(new_state) \o "'")
    ELSE Ok(Look(MapGet(color_map, new_state, Gray),
                 MapGet(emoji_map, new_state, QuestionMark)))

Classify(kind, l) ==
    IF kind = "pipeline" THEN ClassifyPipeline(l.status)
    ELSE ClassifyAlarm(l.NewStateValue)

----------------------------------------------------------------------------
(* Message building *)

title_map ==
    [deployment_started |-> " Deployment Started",
     deployment_completed |-> " Deployment Completed",
     deployment_failed |-> " Deployment Failed",
     build_started |-> " Build Started",
     build_completed |-> " Build Completed",
     build_failed |-> " Build Failed",
     security_scan_completed |-> " Security Scan Completed",
     security_scan_failed |-> " Security Scan Failed",
     health_check_passed |-> " Health Check Passed",
     health_check_failed |-> " Health Check Failed",
     rollback_started |-> " Rollback Started",
     rollback_completed |-> " Rollback Completed"]

\* title_map.get(event_type, f"{emoji} Pipeline Event: {event_type}")
PipelineTitle(event_type, e) ==
    IF event_type.t = "str" /\ event_type.s \in DOMAIN title_map
    THEN e \o title_map[event_type.s]
    ELSE e \o " Pipeline Event: " \o Format(event_type)

Field(title, value, short) == [title |-> title, value |-> value, short |-> short]

\* f"{commit_sha[:8]}"
CommitDisplay(commit_sha) ==
    IF commit_sha.t = "str" THEN Slice(commit_sha.s, ShaDisplayLen) ELSE Format(commit_sha)

\* commit_message[:100] + ("..." if len(commit_message) > 100 else "")
CommitMessageDisplay(s) ==
    Slice(s, CommitMessageLimit) \o (IF Len(s) > CommitMessageLimit THEN "..." ELSE "")

PipelineFields(l, env) ==
    <<Field("Environment", PyStr(StrUpper(env)), TRUE),
      Field("Status", PyStr(StrUpper(l.status.s)), TRUE),
      Field("Branch", l.branch, TRUE),
      Field("Commit", PyStr(CommitDisplay(l.commit_sha)), TRUE),
      Field("Author", l.author, TRUE)>>
    \o (IF Truthy(l.deployment_version)
        THEN <<Field("Version", l.deployment_version, TRUE)>> ELSE <<>>)
    \o <<Field("Commit Message", PyStr(CommitMessageDisplay(l.commit_message.s)), FALSE)>>

\* "title_link": workflow_url if workflow_url else None
TitleLink(workflow_url) == IF Truthy(workflow_url) THEN workflow_url ELSE PyNone

FailedEventTypes == {"deployment_failed", "build_failed", "security_scan_failed"}

\* a test for any event type that ends in _failed
WantsActionsAnyFailed(event_type) ==
    /\ event_type.t = "str"
    /\ Len(event_type.s) >= 7
    /\ SubSeq(event_type.s, Len(event_type.s) - 6, Len(event_type.s)) = "_failed"

\* event_type in ['deployment_failed', 'build_failed', 'security_scan_failed']
WantsActions(event_type) == event_type.t = "str" /\ event_type.s \in FailedEventTypes

ViewWorkflowButton(workflow_url) ==
    [type |-> "button", text |-> "View Workflow", url |-> workflow_url, style |-> "primary"]

PipelineAttachment(l, look, project, env, n) ==
    [color |-> look.color,
     title |-> PipelineTitle(l.event_type, look.emoji),
     title_link |-> TitleLink(l.workflow_url),
     fields |-> PipelineFields(l, env),
     footer |-> project \o " Deployment Pipeline",
     ts |-> n]

\* slack_message["attachments"][0]["actions"] = [...]
WithActions(att, l) ==
    IF WantsActions(l.event_type)
    THEN att @@ [actions |-> <<ViewWorkflowButton(l.workflow_url)>>]
    ELSE att

BuildPipeline(l, look, project, env, n) ==
    IF ~Hashable(l.event_type)
    THEN Raise("TypeError", "unhashable type: '" \o TypeName(l.event_type) \o "'")
    ELSE IF l.commit_sha.t \in {"null", "num"}
    THEN Raise("TypeError", "'" \o TypeName(l.commit_sha) \o "' object is not subscriptable")
    ELSE IF l.commit_message.t \in {"null", "num"}
    THEN Raise("TypeError",
               "'" \o TypeName(l.commit_message) \o "' object is not subscriptable")
    ELSE IF l.commit_message.t = "list"
    THEN Raise("TypeError", "can only concatenate list (not \"str\") to list")
    ELSE Ok([username |-> project \o " CI/CD",
             icon_emoji |-> ":rocket:",
             attachments |-> <<WithActions(PipelineAttachment(l, look, project, env, n), l)>>])

StateChange(old_state, new_state) == Format(old_state) \o " U+2192 " \o Format(new_state)

BuildAlarm(l, look, project, env, n) ==
    Ok([username |-> project \o " Monitoring",
        icon_emoji |-> ":warning:",
        attachments |->
            <<[color |-> look.color,
               title |-> look.emoji \o " CloudWatch Alarm: " \o Format(l.AlarmName),
               fields |->
                   <<Field("Environment", PyStr(StrUpper(env)), TRUE),
                     Field("State Change",
                           PyStr(StateChange(l.OldStateValue, l.NewStateValue)), TRUE),
                     Field("Description", l.AlarmDescription, FALSE),
                     Field("Reason", l.NewStateReason, FALSE),
                     Field("Timestamp", l.StateChangeTime, TRUE)>>,
               footer |-> project \o " AWS Infrastructure",
               ts |-> n]>>])

Build(kind, l, look, project, env, n) ==
    IF kind = "pipeline" THEN BuildPipeline(l, look, project, env, n)
    ELSE BuildAlarm(l, look, project, env, n)

----------------------------------------------------------------------------
(* Responses *)

Response(code, text) == [statusCode |-> code, body |-> JsonDumpsStr(text)]
NoResult == [statusCode |-> 0, body |-> ""]
NoResponse == [status |-> 0, data |-> ""]

NotConfigured == Response(StatusNotConfigured, "Slack webhook URL not configured")

ProcessingError(e) == Response(StatusProcessingError, "Error: " \o e.desc)

\* a branch that takes every 2xx status for success
DeliveryResultAny2xx(resp) ==
    IF resp.status \in 200..299
    THEN Response(HttpOk, "Notification sent successfully")
    ELSE Response(resp.status, "Failed to send notification: " \o BytesRepr(resp.data))

\* the branch on response.status after http.request returned
DeliveryResult(resp) ==
    IF resp.status = HttpOk
    THEN Response(HttpOk, "Notification sent successfully")
    ELSE Response(resp.status, "Failed to send notification: " \o BytesRepr(resp.data))

\* a test for None alone
ConfiguredUnlessNone(url) == url.t # "null"

\* `if not webhook_url`
Configured(url) == Truthy(url)

----------------------------------------------------------------------------
(* The inputs of an invocation *)

HandlerKinds == {"pipeline", "alarm"}

HookUrl == "https://hooks.slack.com/services/T/B/X"

\* os.environ: the webhook URL unset, empty or set; the two labels unset or set
Environ(hook, labels) ==
    LET all == [SLACK_WEBHOOK_URL |-> IF hook = "empty" THEN "" ELSE HookUrl,
                PROJECT_NAME |-> "Acme", ENVIRONMENT |-> "prod"]
        keep == (IF hook = "unset" THEN {} ELSE {"SLACK_WEBHOOK_URL"})
                \cup (IF labels THEN {"PROJECT_NAME", "ENVIRONMENT"} ELSE {})
    IN  [k \in keep |-> all[k]]

\* the JSON object that carries the keys whose choice is not Absent
Mapping(choice) == [k \in {x \in DOMAIN choice : choice[x] # Absent} |-> choice[k]]

Envelope(message) == [Records |-> <<[Sns |-> [Message |-> message]]>>]
EventWithoutRecords == [source |-> "aws.events"]
EventNoRecords == [Records |-> <<>>]
EventWithoutSns == [Records |-> <<[EventSource |-> "aws:sns"]>>]
EventWithoutMessage == [Records |-> <<[Sns |-> [Subject |-> "pipeline"]]>>]

LongSha == "abcdef1234567890"
FullMessage == Repeat("m", CommitMessageLimit)
LongMessage == Repeat("m", CommitMessageLimit + Pad)

EventTypeChoices ==
    {Absent, PyStr("deployment_failed"), PyStr("build_failed"),
     PyStr("security_scan_failed"), PyStr("health_check_failed"),
     PyStr("build_completed"), PyStr("custom_event"), PyList}
StatusChoices ==
    {Absent, PyStr("success"), PyStr("Completed"), PyStr("FAILED"),
     PyStr("in_progress"), PyStr("paused"), PyStr(""), PyNone}
WorkflowUrlChoices == {Absent, PyStr(""), PyStr("https://ci/run/1")}

\* the other fields of a pipeline event: all missing, all empty, a usual event,
\* a long commit message, a null commit_sha, a commit_message that is a list
PipelineDetails ==
    {[branch |-> Absent, commit_sha |-> Absent, commit_message |-> Absent,
      author |-> Absent, deployment_version |-> Absent],
     [branch |-> PyStr(""), commit_sha |-> PyStr(""), commit_message |-> PyStr(""),
      author |-> PyStr(""), deployment_version |-> PyStr("")],
     [branch |-> PyStr("main"), commit_sha |-> PyStr(LongSha),
      commit_message |-> PyStr(FullMessage), author |-> PyStr("ann"),
      deployment_version |-> PyStr("v1")],
     [branch |-> PyStr("main"), commit_sha |-> PyStr(LongSha),
      commit_message |-> PyStr(LongMessage), author |-> Absent,
      deployment_version |-> Absent],
     [branch |-> PyStr("main"), commit_sha |-> PyNone,
      commit_message |-> PyStr("fix"), author |-> PyStr("ann"),
      deployment_version |-> Absent],
     [branch |-> PyNum, commit_sha |-> PyList,
      commit_message |-> PyList, author |-> PyNone,
      deployment_version |-> PyStr("v1")]}

PipelineObjects ==
    {Mapping([event_type |-> et, status |-> st, workflow_url |-> wu] @@ d) :
        <<et, st, wu, d>> \in
            EventTypeChoices \X StatusChoices \X WorkflowUrlChoices \X PipelineDetails}

NewStateChoices ==
    {Absent, PyStr("ALARM"), PyStr("OK"), PyStr("ok"), PyStr("INSUFFICIENT_DATA"),
     PyStr(""), PyList}
OldStateChoices == {Absent, PyStr("ALARM"), PyStr("OK")}

\* the other fields of an alarm: all missing, all empty, a usual alarm, an alarm
\* without description (CloudWatch then sends null)
AlarmDetails ==
    {[AlarmName |-> Absent, AlarmDescription |-> Absent, NewStateReason |-> Absent,
      StateChangeTime |-> Absent],
     [AlarmName |-> PyStr(""), AlarmDescription |-> PyStr(""),
      NewStateReason |-> PyStr(""), StateChangeTime |-> PyStr("")],
     [AlarmName |-> PyStr("cpu-high"), AlarmDescription |-> PyStr("CPU above 80%"),
      NewStateReason |-> PyStr("Threshold Crossed"),
      StateChangeTime |-> PyStr("2024-01-01T00:00:00.000+0000")],
     [AlarmName |-> PyStr("cpu-high"), AlarmDescription |-> PyNone,
      NewStateReason |-> PyStr("Threshold Crossed"),
      StateChangeTime |-> PyStr("2024-01-01T00:00:00.000+0000")]}

AlarmObjects ==
    {Mapping([NewStateValue |-> ns, OldStateValue |-> os] @@ d) :
        <<ns, os, d>> \in NewStateChoices \X OldStateChoices \X AlarmDetails}

RemoteStatuses == {200, 201, 204, 400, 500, 503}
RemoteBodies == {"ok", "no_service"}

----------------------------------------------------------------------------
(* The invocation *)

Init ==
    /\ handlerKind \in HandlerKinds
    /\ \E hook \in {"unset", "empty", "set"}, labels \in BOOLEAN :
           environ = Environ(hook, labels)
    /\ now \in 0..MaxNow
    /\ \/ event = EventWithoutRecords
       \/ event = EventNoRecords
       \/ event = EventWithoutSns
       \/ event = EventWithoutMessage
       \/ event = Envelope(MessageNone)
       \/ event = Envelope(MalformedText)
       \/ event = Envelope(MessageText(JsonArray))
       \/ \E m \in (IF handlerKind = "pipeline" THEN PipelineObjects ELSE AlarmObjects) :
              event = Envelope(MessageText(JsonObject(m)))
    /\ pc = "start"
    /\ webhook_url = PyNone
    /\ project_name = PyNone
    /\ environment = PyNone
    /\ sns_message = JsonArray
    /\ locals = <<>>
    /\ color = ""
    /\ emoji = ""
    /\ slack_message = <<>>
    /\ posts = <<>>
    /\ postOutcome = "none"
    /\ response = NoResponse
    /\ result = NoResult
    /\ fault = NoFault
    /\ eventRead = FALSE
    /\ log = <<>>

LogSubject == IF handlerKind = "pipeline" THEN "pipeline event" ELSE "CloudWatch alarm"

\* an exception raised inside the try block reaches `except Exception as e`
Except(e) ==
    IF CaughtByExcept(e)
    THEN /\ log' = Append(log, "Error processing " \o LogSubject \o " notification: "
                               \o e.desc)
         /\ result' = ProcessingError(e)
         /\ pc' = "done"
         /\ fault' = fault
    ELSE /\ pc' = "raised"
         /\ fault' = e
         /\ UNCHANGED <<result, log>>

\* lines 12-21 of both handlers
CheckConfig ==
    /\ pc = "start"
    /\ webhook_url' = EnvGet("SLACK_WEBHOOK_URL", PyNone)
    /\ project_name' = EnvGet("PROJECT_NAME", PyStr("NovaCore Vectra"))
    /\ environment' = EnvGet("ENVIRONMENT", PyStr("unknown"))
    /\ IF Configured(webhook_url')
       THEN /\ pc' = "decode"
            /\ UNCHANGED <<result, log>>
       ELSE /\ log' = Append(log, "ERROR: SLACK_WEBHOOK_URL environment variable not set")
            /\ result' = NotConfigured
            /\ pc' = "done"
    /\ UNCHANGED <<inputs, sns_message, locals, color, emoji, slack_message, posts,
                   postOutcome, response, fault, eventRead>>

\* line 25
Decode ==
    /\ pc = "decode"
    /\ eventRead' = TRUE
    /\ LET r == DecodeEnvelope(event) IN
           IF r.ok
           THEN /\ sns_message' = r.val
                /\ pc' = "extract"
                /\ UNCHANGED <<result, fault, log>>
           ELSE /\ Except(r.exc)
                /\ UNCHANGED sns_message
    /\ UNCHANGED <<inputs, webhook_url, project_name, environment, locals, color,
                   emoji, slack_message, posts, postOutcome, response>>

\* the sns_message.get(...) lines
ExtractFields ==
    /\ pc = "extract"
    /\ LET r == Extract(handlerKind, sns_message, now) IN
           IF r.ok
           THEN /\ locals' = r.val
                /\ pc' = "classify"
                /\ UNCHANGED <<result, fault, log>>
           ELSE /\ Except(r.exc)
                /\ UNCHANGED locals
    /\ UNCHANGED <<inputs, webhook_url, project_name, environment, sns_message, color,
                   emoji, slack_message, posts, postOutcome, response, eventRead>>

\* the colour and emoji of the status / alarm state
ClassifyStatus ==
    /\ pc = "classify"
    /\ LET r == Classify(handlerKind, locals) IN
           IF r.ok
           THEN /\ color' = r.val.color
                /\ emoji' = r.val.emoji
                /\ pc' = "build"
                /\ UNCHANGED <<result, fault, log>>
           ELSE /\ Except(r.exc)
                /\ UNCHANGED <<color, emoji>>
    /\ UNCHANGED <<inputs, webhook_url, project_name, environment, sns_message, locals,
                   slack_message, posts, postOutcome, response, eventRead>>

\* title, fields, slack_message and the action button
BuildMessage ==
    /\ pc = "build"
    /\ LET r == Build(handlerKind, locals, Look(color, emoji), project_name.s,
                      environment.s, now) IN
           IF r.ok
           THEN /\ slack_message' = r.val
                /\ pc' = "send"
                /\ UNCHANGED <<result, fault, log>>
           ELSE /\ Except(r.exc)
                /\ UNCHANGED slack_message
    /\ UNCHANGED <<inputs, webhook_url, project_name, environment, sns_message, locals,
                   color, emoji, posts, postOutcome, response, eventRead>>

\* http.request('POST', webhook_url, body=json.dumps(slack_message), headers=...)
Request(url, msg) ==
    [method |-> "POST", url |-> url, body |-> JsonDumps(msg),
     headers |-> [ContentType |-> "application/json"]]

\* the call of http.request is entered: the request leaves the handler
PostStart ==
    /\ pc = "send"
    /\ posts' = Append(posts, Request(webhook_url.s, slack_message))
    /\ pc' = "posting"
    /\ UNCHANGED <<inputs, webhook_url, project_name, environment, sns_message, locals,
                   color, emoji, slack_message, postOutcome, response, result, fault,
                   eventRead, log>>

Subject ==
    IF handlerKind = "pipeline"
    THEN "pipeline event: " \o Format(locals.event_type)
    ELSE "alarm: " \o Format(locals.AlarmName)

\* a handler that POSTs once more after a response other than 200
PostReturnRetrying ==
    /\ pc = "posting"
    /\ \E status \in RemoteStatuses, data \in RemoteBodies :
           /\ response' = [status |-> status, data |-> data]
           /\ IF status # HttpOk /\ Len(posts) < 2
              THEN /\ pc' = "send"
                   /\ postOutcome' = "none"
                   /\ UNCHANGED <<result, log>>
              ELSE /\ pc' = "done"
                   /\ postOutcome' = "returned"
                   /\ result' = DeliveryResult(response')
                   /\ log' = Append(log, "Status: " \o ToString(status))
    /\ UNCHANGED <<inputs, webhook_url, project_name, environment, sns_message, locals,
                   color, emoji, slack_message, posts, fault, eventRead>>

\* http.request returns a response; the handler returns by its status
PostReturn ==
    /\ pc = "posting"
    /\ \E status \in RemoteStatuses, data \in RemoteBodies :
           /\ response' = [status |-> status, data |-> data]
           /\ result' = DeliveryResult(response')
           /\ log' = Append(log,
                  IF status = HttpOk
                  THEN "Successfully sent Slack notification for " \o Subject
                  ELSE "Failed to send Slack notification. Status: " \o ToString(status))
    /\ postOutcome' = "returned"
    /\ pc' = "done"
    /\ UNCHANGED <<inputs, webhook_url, project_name, environment, sns_message, locals,
                   color, emoji, slack_message, posts, fault, eventRead>>

\* http.request raises (connection refused, retries exhausted, ...)
PostRaise ==
    /\ pc = "posting"
    /\ postOutcome' = "raised"
    /\ Except(Exc("MaxRetryError", "HTTPSConnectionPool: Max retries exceeded"))
    /\ UNCHANGED <<inputs, webhook_url, project_name, environment, sns_message, locals,
                   color, emoji, slack_message, posts, response, eventRead>>

Next ==
    \/ CheckConfig
    \/ Decode
    \/ ExtractFields
    \/ ClassifyStatus
    \/ BuildMessage
    \/ PostStart
    \/ PostReturn
    \/ PostRaise

Spec == Init /\ [][Next]_vars

----------------------------------------------------------------------------
(* Vocabulary of the properties *)

StartsWith(s, prefix) ==
    Len(s) >= Len(prefix) /\ SubSeq(s, 1, Len(prefix)) = prefix

Contains(s, part) ==
    \E i \in 1..(Len(s) - Len(part) + 1) : SubSeq(s, i, i + Len(part) - 1) = part

\* a {statusCode, body} response whose body is a JSON string
Structured(r) ==
    /\ DOMAIN r = {"statusCode", "body"}
    /\ r.statusCode \in 100..599
    /\ Len(r.body) >= 2
    /\ StartsWith(r.body, "\"")
    /\ SubSeq(r.body, Len(r.body), Len(r.body)) = "\""

Returned == pc = "done"

WebhookUnset ==
    \/ "SLACK_WEBHOOK_URL" \notin DOMAIN environ
    \/ environ["SLACK_WEBHOOK_URL"] = ""

\* the envelope cannot be decoded, and why
EnvelopeFault ==
    IF "Records" \notin DOMAIN event THEN "Records"
    ELSE IF event.Records = <<>> THEN "list index out of range"
    ELSE IF "Sns" \notin DOMAIN event.Records[1] THEN "Sns"
    ELSE IF "Message" \notin DOMAIN event.Records[1].Sns THEN "Message"
    ELSE IF event.Records[1].Sns.Message.t # "str" THEN "JSON object must be str"
    ELSE IF ~event.Records[1].Sns.Message.wf THEN "Expecting value"
    ELSE ""

\* the object the event carries, when it carries one
Carried == event.Records[1].Sns.Message.doc.m

CarriesObject ==
    /\ EnvelopeFault = ""
    /\ event.Records[1].Sns.Message.doc.t = "obj"

Extracted == DOMAIN locals # {}
Built == DOMAIN slack_message # {}
Attachment == slack_message.attachments[1]

----------------------------------------------------------------------------
(* Properties *)

\* how far the invocation has got
Rank(at) ==
    CASE at = "start" -> 0
      [] at = "decode" -> 1
      [] at = "extract" -> 2
      [] at = "classify" -> 3
      [] at = "build" -> 4
      [] at = "send" -> 5
      [] at = "posting" -> 6
      [] at \in {"done", "raised"} -> 7

\* C1: whatever the event, the configuration and the outcome of the webhook
\* call, no exception leaves the handler, what it returns is a structured
\* {statusCode, body} response, and the invocation terminates by returning:
\* every step moves it forward and it can always step until it has returned.
AlwaysReturnsStructured ==
    /\ [](pc # "raised" /\ fault = NoFault)
    /\ [](Returned => Structured(result))
    /\ [](Returned \/ ENABLED Next)
    /\ [][Rank(pc') > Rank(pc)]_vars

\* C1 witness: http.request raised and the handler returned a 500 response.
DeliveryFaultReturned ==
    /\ Returned
    /\ postOutcome = "raised"
    /\ result.statusCode = 500

\* C2: with the webhook URL unset or empty the invocation returns 400 with the
\* configuration-error body, never reads the event and never POSTs.
UnsetWebhookShortCircuits ==
    WebhookUnset =>
        /\ ~eventRead
        /\ posts = <<>>
        /\ pc \in {"start", "done"}
        /\ Returned =>
              /\ result.statusCode = 400
              /\ result.body = "\"Slack webhook URL not configured\""

\* C2 witness: an empty webhook URL and a malformed message, answered by 400.
UnsetWebhookMalformedEvent ==
    /\ "SLACK_WEBHOOK_URL" \in DOMAIN environ
    /\ WebhookUnset
    /\ EnvelopeFault = "Expecting value"
    /\ Returned
    /\ result.statusCode = 400

\* C3: once the POST returned a response, the invocation answers 200 with the
\* success body exactly when the remote status is 200, and otherwise answers
\* the remote status with a body that echoes the remote body.
OnlyRemote200IsSuccess ==
    postOutcome = "returned" =>
        /\ Returned
        /\ (result.statusCode = 200 /\ result.body = "\"Notification sent successfully\"")
              <=> response.status = 200
        /\ response.status # 200 =>
              /\ result.statusCode = response.status
              /\ StartsWith(result.body, "\"Failed to send notification: ")
              /\ Contains(result.body, response.data)

\* C3 witness: the remote answered 204 and the invocation reports 204.
Remote204Reported ==
    /\ postOutcome = "returned"
    /\ response.status = 204
    /\ result.statusCode = 204

\* C4: with the webhook configured, an envelope that cannot be decoded gives
\* 500 with a body carrying the exception's description, and nothing is POSTed.
DecodeFailureGives500 ==
    (~WebhookUnset /\ EnvelopeFault # "") =>
        /\ posts = <<>>
        /\ postOutcome = "none"
        /\ pc \in {"start", "decode", "done"}
        /\ Returned =>
              /\ result.statusCode = 500
              /\ StartsWith(result.body, "\"Error: ")
              /\ Contains(result.body, EnvelopeFault)

\* C4 witness: a malformed message answered by 500.
MalformedMessageAnswered ==
    /\ ~WebhookUnset
    /\ EnvelopeFault = "Expecting value"
    /\ Returned
    /\ eventRead
    /\ result.statusCode = 500

\* C5: at most one POST per invocation, issued only after the configuration
\* check, decoding, extraction, classification and building all succeeded; an
\* invocation ends with no POST started, or with the call ended and the
\* statusCode reporting how it ended.
SinglePostNoPartialDelivery ==
    /\ Len(posts) <= 1
    /\ posts # <<>> =>
          /\ ~WebhookUnset
          /\ posts[1].url = environ["SLACK_WEBHOOK_URL"]
          /\ eventRead
          /\ CarriesObject
          /\ Extracted
          /\ color # ""
          /\ Built
          /\ posts[1].body = [json |-> slack_message]
    /\ posts = <<>> => postOutcome = "none"
    /\ postOutcome # "none" => Returned
    /\ Returned =>
          \/ posts = <<>>
          \/ postOutcome = "returned" /\ result.statusCode = response.status
          \/ postOutcome = "raised" /\ result.statusCode = 500

\* C5 witness: the one POST was answered 503 and the invocation ended with 503.
OnePostReported ==
    /\ Returned
    /\ Len(posts) = 1
    /\ postOutcome = "returned"
    /\ response.status = 503
    /\ result.statusCode = 503

\* what the carried object gives for a key, and the default when it lacks it
CarriedOr(key, default) == IF key \in DOMAIN Carried THEN Carried[key] ELSE default

\* C6: the pipeline classifier is total and case-insensitive: once the fields
\* of a decoded message are extracted, classification yields the bucket of the
\* lowercased status (gray for anything outside the three buckets) and never
\* ends the invocation with an error.
PipelineClassifierTotal ==
    (handlerKind = "pipeline" /\ Extracted /\ pc # "classify") =>
        LET status == CarriedOr("status", PyStr("unknown"))
            lowered == IF status.t = "str" THEN StrLower(status.s) ELSE Format(status)
        IN  /\ lowered \in {"success", "completed"} =>
                  color = "#00FF00" /\ emoji = CheckMark
            /\ lowered \in {"failure", "failed", "error"} =>
                  color = "#FF0000" /\ emoji = CrossMark
            /\ lowered \in {"started", "running", "in_progress"} =>
                  color = "#FFA500" /\ emoji = Arrows
            /\ lowered \notin {"success", "completed", "failure", "failed", "error",
                               "started", "running", "in_progress"} =>
                  color = "#808080" /\ emoji = QuestionMark

RecognizedFields ==
    IF handlerKind = "pipeline"
    THEN {"event_type", "status", "branch", "commit_sha", "commit_message", "author"}
    ELSE {"AlarmName", "AlarmDescription", "NewStateValue", "OldStateValue",
          "NewStateReason", "StateChangeTime"}

NamedDefault(key) ==
    IF handlerKind = "pipeline" THEN PipelineDefaults[key] ELSE AlarmDefaults(now)[key]

\* C7: every recognized field is used with its named default when the decoded
\* mapping lacks it or carries it empty, and with the supplied value otherwise.
DefaultWhenMissingOrEmpty ==
    Extracted =>
        \A key \in RecognizedFields :
            locals[key] =
                IF key \notin DOMAIN Carried \/ Carried[key] = PyStr("")
                THEN NamedDefault(key)
                ELSE Carried[key]

\* C8: the pipeline attachment has an actions list, of exactly one button, if
\* and only if event_type is deployment_failed, build_failed or
\* security_scan_failed, whatever the status; otherwise it has no actions key.
ActionsIffFailedEventType ==
    (handlerKind = "pipeline" /\ Built) =>
        /\ "actions" \in DOMAIN Attachment <=>
              CarriedOr("event_type", PyStr("unknown")) \in
                  {PyStr("deployment_failed"), PyStr("build_failed"),
                   PyStr("security_scan_failed")}
        /\ "actions" \in DOMAIN Attachment =>
              /\ Len(Attachment.actions) = 1
              /\ Attachment.actions[1].type = "button"
              /\ Attachment.actions[1].text = "View Workflow"

\* C8 witness: a build_failed event of status success is POSTed with the button.
FailedBuildPostedWithButton ==
    /\ handlerKind = "pipeline"
    /\ posts # <<>>
    /\ CarriedOr("event_type", Absent) = PyStr("build_failed")
    /\ CarriedOr("status", Absent) = PyStr("success")
    /\ "actions" \in DOMAIN posts[1].body.json.attachments[1]

ButtonHasWorkflowLink ==
    (handlerKind = "pipeline" /\ posts # <<>>
        /\ "actions" \in DOMAIN posts[1].body.json.attachments[1]) =>
        LET att == posts[1].body.json.attachments[1]
            url == att.actions[1].url
        IN  /\ url.t = "str"
            /\ url.s # ""
            /\ att.title_link = url

====
